---- MODULE Spec2Model ----
(***************************************************************************)
(* Model of connection_monitor.py: the ConnectionMonitor class.  The log   *)
(* file is a sequence of CSV lines, each a tuple of nine text cells; the   *)
(* four probes are functions of what their transport collaborator does;    *)
(* check_connection, run and generate_report are translated from the code. *)
(*                                                                         *)
(* Numbers.  Every Python float is an exact rational <<n, d>> with d > 0.  *)
(* time.time() is counted in units of 1/SubSec second, so the timestamp    *)
(* column holds <<clock, SubSec>> and the datetime column, which strftime  *)
(* cuts to whole seconds, holds clock \div SubSec.  An optional value      *)
(* (Python None or a value) is a sequence of length 0 or 1.                *)
(***************************************************************************)
EXTENDS Integers, Sequences, FiniteSets, TLC

VARIABLES
    check_method,      \* self.check_method
    ping_count,        \* self.ping_count
    interval,          \* self.interval, in clock units
    log_exists,        \* os.path.isfile(self.log_file)
    log_lines,         \* the lines of self.log_file
    report_file,       \* self.report_file: <<>> (absent) or <<the report written>>
    clock,             \* time.time() / datetime.now(), in units of 1/SubSec s
    pc,                \* where run() is: "idle", "loop", "returned", "raised"
    duration,          \* run's parameter: <<>> (None) or <<d>>, in clock units
    start_time,        \* run's local start_time
    last_status,       \* run's local last_status: <<>> (None) or <<BOOLEAN>>
    disconnect_count,  \* run's local disconnect_count
    disconnect_start,  \* run's local disconnect_start: <<>> (None) or <<clock>>
    notices,           \* the transition notifications run() has printed
    verdicts,          \* what check_connection returned to run(), call by call
    ticks,             \* calls of check_connection made so far
    tick_starts,       \* per loop iteration of run(): when it started, how long the check took
    last_check,        \* what the last call of check_connection did
    report_calls,      \* calls of generate_report made so far
    last_report,       \* what the last call of generate_report did
    stop_cause,        \* why run() left its loop: "none", "duration", "interrupt", "error"
    run_exc            \* the exception run() ended with, "none" if it returned

vars == <<check_method, ping_count, interval, log_exists, log_lines, report_file,
          clock, pc, duration, start_time, last_status, disconnect_count,
          disconnect_start, notices, verdicts, ticks, tick_starts, last_check,
          report_calls, last_report, stop_cause, run_exc>>

(***************************************************************************)
(* Bounds of the model.                                                    *)
(***************************************************************************)
SubSec == 2        \* clock units per second
MaxRows == 4       \* rows of a log that exists before the program starts
MaxStep == 2       \* largest gap, in clock units, between two such rows
MaxTicks == 3      \* loop iterations of run() that are explored
MaxPing == 2       \* largest ping_count of Spec and SpecCheck
MaxCount == 3      \* largest ping_count of SpecPing
MaxSample == 2     \* largest round-trip time of one ping, in ms
MaxLat == 1        \* largest latency a socket, HTTP or UDP probe measures, in ms
MaxTickTime == 1   \* longest a call of check_connection takes, in clock units
MaxInterval == 1   \* largest interval, in clock units
MaxDuration == 2   \* largest duration given to run(), in clock units

(***************************************************************************)
(* Text cells of the CSV file.                                             *)
(***************************************************************************)
Cell(t, v) == [t |-> t, v |-> v]
Empty == Cell("empty", <<0, 1>>)                 \* '' : what csv writes for None
NoneText == Cell("none", <<0, 1>>)               \* the text 'None'
Garbage == Cell("garbage", <<0, 1>>)             \* text that is no number and no date
Num(q) == Cell("num", q)                         \* repr of a float or an int
DateText(s) == Cell("date", <<s, 1>>)            \* 'YYYY-mm-dd HH:MM:SS'
Name(i) == Cell("name", <<i, 1>>)                \* a column title

Columns == <<"timestamp", "datetime", "connected", "ping_time", "jitter",
             "packet_loss", "udp_time", "socket_time", "http_time">>

Col(name) == CHOOSE i \in 1..Len(Columns) : Columns[i] = name

Header == [i \in 1..Len(Columns) |-> Name(i)]

\* str(x) as csv.writer writes it: None becomes the empty string.
FormatOpt(o) == IF o = <<>> THEN Empty ELSE Num(o[1])

\* now.timestamp()
Timestamp(now) == <<now, SubSec>>

\* now.strftime('%Y-%m-%d %H:%M:%S'): the fraction of the second is dropped.
Strftime(now) == DateText(now \div SubSec)

\* float(text) and int(text): a ValueError unless the text is a number.
IsNumber(c) == c.t = "num"

\* datetime.strptime(text, '%Y-%m-%d %H:%M:%S')
IsDate(c) == c.t = "date"

\* float(row[k]) if row[k] not in ['None', '', None] else None
MetricOk(c) == c.t \in {"none", "empty", "num"}
ParseMetric(c) == IF c.t \in {"none", "empty"} THEN <<>> ELSE <<c.v>>

\* The row check_connection writes for one tick (writer.writerow, lines 226-227).
RowOf(now, is_connected, ping_time, jitter, packet_loss, udp_time, socket_time, http_time) ==
    << Num(Timestamp(now)), Strftime(now),
       Num(<<IF is_connected THEN 1 ELSE 0, 1>>),
       FormatOpt(ping_time), FormatOpt(jitter), FormatOpt(packet_loss),
       FormatOpt(udp_time), FormatOpt(socket_time), FormatOpt(http_time) >>

(***************************************************************************)
(* generate_report: reading the series back (csv.DictReader).              *)
(***************************************************************************)
MetricColumns == {"ping_time", "jitter", "packet_loss", "udp_time", "socket_time", "http_time"}

\* No conversion of the loop body at lines 293-301 raises on this line.
RowOk(line) ==
    /\ IsNumber(line[Col("timestamp")])
    /\ IsDate(line[Col("datetime")])
    /\ IsNumber(line[Col("connected")])
    /\ \A m \in MetricColumns : MetricOk(line[Col(m)])

\* The first line of the file gives DictReader its field names; every later
\* line is a row.  row['timestamp'] is a KeyError when the first line is not
\* the header, a conversion of a malformed field is a ValueError, and either
\* one leaves generate_report at once.
ReadSeries(lines) ==
    LET body == IF lines = <<>> THEN <<>> ELSE Tail(lines)
        none == [exc |-> "none", timestamps |-> <<>>, datetimes |-> <<>>, statuses |-> <<>>,
                 metrics |-> <<>>]
    IN  IF body = <<>> THEN none
        ELSE IF lines[1] # Header THEN [none EXCEPT !.exc = "KeyError"]
        ELSE IF \E i \in 1..Len(body) : ~RowOk(body[i]) THEN [none EXCEPT !.exc = "ValueError"]
        ELSE [exc |-> "none",
              timestamps |-> [i \in 1..Len(body) |-> body[i][Col("timestamp")].v[1]],
              datetimes |-> [i \in 1..Len(body) |-> body[i][Col("datetime")].v[1]],
              statuses |-> [i \in 1..Len(body) |-> body[i][Col("connected")].v[1] # 0],
              metrics |-> [i \in 1..Len(body) |->
                              [m \in MetricColumns |-> ParseMetric(body[i][Col(m)])]]]

(***************************************************************************)
(* generate_report: the episode pass, lines 306-316.  A datetime object is *)
(* always true, so `and disconnect_start` asks whether it is not None.     *)
(***************************************************************************)
RECURSIVE TrackFrom(_, _, _, _, _)
TrackFrom(statuses, datetimes, i, dstart, acc) ==
    IF i > Len(statuses) THEN [disconnect_start |-> dstart, disconnects |-> acc]
    ELSE IF i > 1 /\ ~statuses[i] /\ statuses[i - 1]
         THEN TrackFrom(statuses, datetimes, i + 1, <<datetimes[i]>>, acc)
    ELSE IF i > 1 /\ statuses[i] /\ ~statuses[i - 1] /\ dstart # <<>>
         THEN TrackFrom(statuses, datetimes, i + 1, <<>>,
                        Append(acc, <<dstart[1], datetimes[i]>>))
    ELSE TrackFrom(statuses, datetimes, i + 1, dstart, acc)

\* The pass without lines 315-316: an episode still open at the end is dropped.
DisconnectsDropOpen(statuses, datetimes) ==
    TrackFrom(statuses, datetimes, 1, <<>>, <<>>).disconnects

Disconnects(statuses, datetimes) ==
    LET r == TrackFrom(statuses, datetimes, 1, <<>>, <<>>)
    IN  IF r.disconnect_start # <<>>
        THEN Append(r.disconnects, <<r.disconnect_start[1], datetimes[Len(datetimes)]>>)
        ELSE r.disconnects

RECURSIVE SumDurations(_)
SumDurations(disconnects) ==
    IF disconnects = <<>> THEN 0
    ELSE (disconnects[1][2] - disconnects[1][1]) + SumDurations(Tail(disconnects))

\* uptime_percentage, line 326.  total_time is in clock units and the episode
\* durations are whole seconds, so (1 - D / (T / SubSec)) * 100 is the rational
\* 100 * (T - D * SubSec) / T.
UptimePercentage(total_disconnect_time, total_time) ==
    IF total_time > 0
    THEN <<100 * (total_time - total_disconnect_time * SubSec), total_time>>
    ELSE <<0, 1>>

NoReport(outcome, exc) ==
    [outcome |-> outcome, exc |-> exc, total_checks |-> 0, connected_checks |-> 0,
     total_time |-> 0, disconnects |-> <<>>, uptime |-> <<0, 1>>]

\* generate_report without the guard of lines 302-304: with no row read it goes
\* on, creates the report file and fails at datetimes[0] (line 350).
GenerateReportNoGuard(exists, lines) ==
    IF ~exists THEN NoReport("nofile", "none")
    ELSE LET s == ReadSeries(lines)
         IN  IF s.exc # "none" THEN NoReport("raised", s.exc)
             ELSE IF s.timestamps = <<>> THEN NoReport("raised", "IndexError")
             ELSE LET d == Disconnects(s.statuses, s.datetimes)
                      total_time == s.timestamps[Len(s.timestamps)] - s.timestamps[1]
                  IN  [outcome |-> "written", exc |-> "none",
                       total_checks |-> Len(s.statuses),
                       connected_checks |-> Cardinality({i \in 1..Len(s.statuses) : s.statuses[i]}),
                       total_time |-> total_time,
                       disconnects |-> d,
                       uptime |-> UptimePercentage(SumDurations(d), total_time)]

\* generate_report, lines 279-389, as a function of the log file.  outcome is
\* "nofile" (line 284), "nodata" (line 303), "raised" (an exception of the read
\* loop) or "written" (the report file was written).
GenerateReport(exists, lines) ==
    IF ~exists THEN NoReport("nofile", "none")
    ELSE LET s == ReadSeries(lines)
         IN  IF s.exc # "none" THEN NoReport("raised", s.exc)
             ELSE IF s.timestamps = <<>> THEN NoReport("nodata", "none")
             ELSE LET d == Disconnects(s.statuses, s.datetimes)
                      total_time == s.timestamps[Len(s.timestamps)] - s.timestamps[1]
                  IN  [outcome |-> "written", exc |-> "none",
                       total_checks |-> Len(s.statuses),
                       connected_checks |-> Cardinality({i \in 1..Len(s.statuses) : s.statuses[i]}),
                       total_time |-> total_time,
                       disconnects |-> d,
                       uptime |-> UptimePercentage(SumDurations(d), total_time)]

\* The effect of one call of generate_report, on the log as given.
DoReport(exists, lines) ==
    LET r == GenerateReport(exists, lines)
    IN  /\ report_calls' = report_calls + 1
        /\ last_report' = r
        /\ report_file' = IF r.outcome = "written" THEN <<r>> ELSE report_file

(***************************************************************************)
(* The four probes.  Each is a function of what its collaborator (the ping *)
(* subprocess, the socket layer, the two HTTP clients) does; the result is *)
(* [exc, ok, time, jitter, loss], exc # "none" when the probe raises.      *)
(***************************************************************************)
ProbeResult(ok, time, jitter, loss) ==
    [exc |-> "none", ok |-> ok, time |-> time, jitter |-> jitter, loss |-> loss]

ProbeFailed == ProbeResult(FALSE, <<>>, <<>>, <<>>)

RECURSIVE SumSeq(_)
SumSeq(q) == IF q = <<>> THEN 0 ELSE Head(q) + SumSeq(Tail(q))

\* math.sqrt(n / d), kept exact: <<n, d, 2>> stands for the square root of n/d.
Sqrt(q) == <<q[1], q[2], 2>>

\* The share of the packets that were answered, where line 85 takes the share
\* that was lost.
PacketLossOfAnswered(count, successes) == <<successes * 100, count>>

\* packet_loss, line 85: (ping_count - successes) / ping_count * 100.
PacketLoss(count, successes) == <<(count - successes) * 100, count>>

\* The population deviation: the sum of squares divided by n, where line 87
\* divides by n - 1.
JitterPopulation(times) ==
    LET n == Len(times)
        total == SumSeq(times)
        squares == SumSeq([i \in 1..n |-> (n * times[i] - total) * (n * times[i] - total)])
    IN  IF n > 1 THEN Sqrt(<<squares, n * n * n>>) ELSE <<0, 1>>

\* jitter, lines 87-88, for a non-empty list of times.  avg = sum / n, so
\* sum((t - avg)^2) / (n - 1) = sum((n t - sum)^2) / (n^2 (n - 1)).
Jitter(times) ==
    LET n == Len(times)
        total == SumSeq(times)
        squares == SumSeq([i \in 1..n |-> (n * times[i] - total) * (n * times[i] - total)])
    IN  IF n > 1 THEN Sqrt(<<squares, n * n * (n - 1)>>) ELSE <<0, 1>>

\* check_connection_ping, lines 55-95.  o.raises: subprocess.run raised;
\* o.times: the round-trip times parsed from the output, in ms.
PingProbe(count, o) ==
    IF o.raises \/ count = 0 THEN ProbeFailed
    ELSE LET times == o.times
             successes == Len(times)
             packet_loss == PacketLoss(count, successes)
         IN  IF successes = 0 THEN ProbeResult(FALSE, <<>>, <<>>, <<packet_loss>>)
             ELSE ProbeResult(TRUE, << <<SumSeq(times), successes>> >>, <<Jitter(times)>>,
                              <<packet_loss>>)

\* check_connection_socket, lines 103-125.  o.does: "connected" (connect_ex
\* returned 0), "refused" (another code), "gaierror" (the name did not
\* resolve, raised before the socket is created), "error" (settimeout or
\* connect_ex raised); o.ms: the time measured.
SocketProbe(o) ==
    IF o.does = "connected" THEN ProbeResult(TRUE, <<o.ms>>, <<>>, <<>>) ELSE ProbeFailed

\* check_connection_http, lines 133-150.  o.primary: what requests.get did,
\* "200", "status" (another status), "RequestException" or "exception" (an
\* exception of another class); o.secondary: what urlopen did, the status of
\* the response it returned ("200", "204") or the error it raised.
HttpProbe(o) ==
    IF o.primary = "200" THEN ProbeResult(TRUE, <<o.ms>>, <<>>, <<>>)
    ELSE IF o.primary = "status" THEN ProbeFailed
    ELSE IF o.primary = "RequestException"
         THEN IF o.secondary \in {"200", "204"}
              THEN ProbeResult(TRUE, <<o.ms>>, <<>>, <<>>)
              ELSE ProbeFailed
    ELSE [ProbeFailed EXCEPT !.exc = "Exception"]

\* check_connection_udp, lines 158-183.  o.does: "reply" (recvfrom returned),
\* "timeout" or "error" (sendto or recvfrom raised).
UdpProbe(o) ==
    IF o.does = "reply" THEN ProbeResult(TRUE, <<o.ms>>, <<>>, <<>>) ELSE ProbeFailed

\* The probe returned without sock.close() on the socket it had created: the
\* socket probe closes right after connect_ex (line 117), which an exception
\* of lines 115-116 skips; the UDP probe closes after recvfrom has returned
\* (line 179), which an exception of sendto or recvfrom skips.
Unclosed(name, env) ==
    IF name = "socket" THEN env.socket.does = "error"
    ELSE IF name = "udp" THEN env.udp.does \in {"timeout", "error"}
    ELSE FALSE

\* The sockets of a set that was never closed which are still open when
\* check_connection returns: the code leaves them to the interpreter, which
\* closes an unreferenced socket when it collects it, at once or later.
Collected(unclosed) == {unclosed, {}}

(***************************************************************************)
(* check_connection, lines 191-229.                                        *)
(***************************************************************************)
Methods == {"ping", "socket", "http", "udp", "all"}

\* The probes the branch of the method calls, in the order it calls them.
Selected(method) ==
    IF method = "all" THEN <<"ping", "socket", "http", "udp">>
    ELSE IF method \in Methods THEN <<method>>
    ELSE <<>>

Range(q) == {q[i] : i \in 1..Len(q)}

RunProbe(name, count, env) ==
    IF name = "ping" THEN PingProbe(count, env.ping)
    ELSE IF name = "socket" THEN SocketProbe(env.socket)
    ELSE IF name = "http" THEN HttpProbe(env.http)
    ELSE UdpProbe(env.udp)

\* The "all" branch without udp_result[0] in the disjunction of line 210.
IsConnectedNoUdp(method, res) ==
    IF method = "all" THEN res["ping"].ok \/ res["socket"].ok \/ res["http"].ok
    ELSE res[method].ok

\* is_connected as the branch of the method computes it (lines 195-210).
IsConnected(method, res) ==
    IF method = "ping" THEN res["ping"].ok
    ELSE IF method = "socket" THEN res["socket"].ok
    ELSE IF method = "http" THEN res["http"].ok
    ELSE IF method = "udp" THEN res["udp"].ok
    ELSE res["ping"].ok \/ res["socket"].ok \/ res["http"].ok \/ res["udp"].ok

\* The locals that are bound when line 226 is reached; socket_time and
\* http_time are assigned in the "all" branch only (lines 213-214).
Bound(method) ==
    {"ping_time", "jitter", "packet_loss", "udp_time"}
        \cup (IF method = "all" THEN {"socket_time", "http_time"} ELSE {})

\* The metric locals after the branch of the method (lines 192-214).
Locals(method, res) ==
    [ping_time |-> IF method \in {"ping", "all"} THEN res["ping"].time
                   ELSE IF method = "socket" THEN res["socket"].time
                   ELSE IF method = "http" THEN res["http"].time
                   ELSE <<>>,
     jitter |-> IF method \in {"ping", "all"} THEN res["ping"].jitter ELSE <<>>,
     packet_loss |-> IF method \in {"ping", "all"} THEN res["ping"].loss ELSE <<>>,
     udp_time |-> IF method \in {"udp", "all"} THEN res["udp"].time ELSE <<>>,
     socket_time |-> IF method = "all" THEN res["socket"].time ELSE <<>>,
     http_time |-> IF method = "all" THEN res["http"].time ELSE <<>>]

\* One call.  env: what the collaborators do; can_append: open(log_file, 'a')
\* and the writes succeed.  The result says which exception left the call
\* ("none" if it returned), which probes ran, which succeeded, and the file
\* afterwards.  A method outside Methods re-enters check_connection with
\* nothing changed (line 217) until the interpreter raises RecursionError.
CheckConnection(method, count, exists, lines, now, env, can_append) ==
    LET sel == Selected(method)
        res == [p \in {"ping", "socket", "http", "udp"} |-> RunProbe(p, count, env)]
        \* the first selected probe that raises, 0 if none does
        stop == IF \E i \in 1..Len(sel) : res[sel[i]].exc # "none"
                THEN CHOOSE i \in 1..Len(sel) :
                        res[sel[i]].exc # "none" /\ \A j \in 1..(i - 1) : res[sel[j]].exc = "none"
                ELSE 0
        ran == IF stop = 0 THEN Range(sel) ELSE {sel[i] : i \in 1..stop}
        m == Locals(method, res)
        row == RowOf(now, IsConnected(method, res), m.ping_time, m.jitter, m.packet_loss,
                     m.udp_time, m.socket_time, m.http_time)
        out(exc, appended, e, l) ==
            [exc |-> exc, ran |-> ran,
             flags |-> {p \in ran : res[p].exc = "none" /\ res[p].ok},
             is_connected |-> IF stop = 0 THEN IsConnected(method, res) ELSE FALSE,
             appended |-> appended, row |-> IF appended THEN row ELSE <<>>,
             locals |-> m, unclosed |-> {p \in ran : Unclosed(p, env)},
             exists |-> e, lines |-> l]
        opened == IF exists THEN lines ELSE <<Header>>
    IN  IF method \notin Methods THEN out("RecursionError", FALSE, exists, lines)
        ELSE IF stop # 0 THEN out(res[sel[stop]].exc, FALSE, exists, lines)
        ELSE IF ~can_append THEN out("OSError", FALSE, exists, lines)
        ELSE IF ~({"socket_time", "http_time"} \subseteq Bound(method))
             THEN out("UnboundLocalError", FALSE, TRUE, opened)
        ELSE out("none", TRUE, TRUE, Append(opened, row))

One == <<1, 1>>

\* A probe the method does not call has no outcome: it is given a fixed one.
Quiet ==
    [ping |-> [raises |-> TRUE, times |-> <<>>], socket |-> [does |-> "refused", ms |-> One],
     http |-> [primary |-> "status", secondary |-> "200", ms |-> One],
     udp |-> [does |-> "timeout", ms |-> One]]

(***************************************************************************)
(* The state after construction, before run() or generate_report is called.*)
(***************************************************************************)
NoCheck ==
    [called |-> FALSE, method |-> "", env |-> Quiet, exc |-> "none", ran |-> {}, flags |-> {},
     is_connected |-> FALSE, appended |-> FALSE, row |-> <<>>,
     locals |-> [m \in MetricColumns |-> <<>>], open |-> {}]

\* What a call of check_connection leaves in last_check; held: the probes
\* whose socket is still open when the call is over.
Checked(method, env, c, held) ==
    [called |-> TRUE, method |-> method, env |-> env, exc |-> c.exc, ran |-> c.ran, flags |-> c.flags,
     is_connected |-> c.is_connected, appended |-> c.appended, row |-> c.row,
     locals |-> c.locals, open |-> held]

Constructed ==
    /\ pc = "idle"
    /\ duration = <<>>
    /\ start_time = 0
    /\ last_status = <<>>
    /\ disconnect_count = 0
    /\ disconnect_start = <<>>
    /\ notices = <<>>
    /\ verdicts = <<>>
    /\ ticks = 0
    /\ tick_starts = <<>>
    /\ last_check = NoCheck
    /\ report_calls = 0
    /\ last_report = NoReport("none", "none")
    /\ report_file = <<>>
    /\ stop_cause = "none"
    /\ run_exc = "none"

(***************************************************************************)
(* SpecReport: the --only-report path (line 491) over a log left by        *)
(* earlier runs, possibly damaged: generate_report is applied to it once.  *)
(***************************************************************************)
\* A row as an earlier run with check_method = "all" wrote it.
OldRow(ts, conn) ==
    IF conn THEN RowOf(ts, TRUE, <<One>>, <<<<0, 1>>>>, <<<<0, 1>>>>, <<One>>, <<One>>, <<One>>)
    ELSE RowOf(ts, FALSE, <<>>, <<>>, <<<<100, 1>>>>, <<>>, <<>>, <<>>)

RECURSIVE SumTo(_, _)
SumTo(f, i) == IF i = 0 THEN 0 ELSE f[i] + SumTo(f, i - 1)

OldRows(steps, conn) == [i \in 1..Len(steps) |-> OldRow(SumTo(steps, i), conn[i])]

BadKinds == {"timestamp", "datetime", "connected", "ping_time"}

\* Row `bad` of the rows with field `kind` replaced by text of the wrong type.
Spoil(rows, bad, kind) ==
    [i \in 1..Len(rows) |-> IF i = bad THEN [rows[i] EXCEPT ![Col(kind)] = Garbage] ELSE rows[i]]

InitReport ==
    /\ Constructed
    /\ check_method = "all"
    /\ ping_count = 3
    /\ interval = SubSec
    /\ clock = 0
    /\ \E form \in {"absent", "empty", "header", "noheader"}, n \in 0..MaxRows :
       \E steps \in [1..n -> 0..MaxStep], conn \in [1..n -> BOOLEAN],
          bad \in 0..n, kind \in BadKinds :
          /\ form \in {"absent", "empty"} => n = 0
          /\ bad = 0 => kind = "timestamp"
          /\ bad # 0 => steps = [i \in 1..n |-> 1]
          /\ log_exists = (form # "absent")
          /\ log_lines = LET rows == IF bad = 0 THEN OldRows(steps, conn)
                                     ELSE Spoil(OldRows(steps, conn), bad, kind)
                         IN  IF form = "header" THEN <<Header>> \o rows ELSE rows

OnlyReport ==
    /\ pc = "idle"
    /\ report_calls = 0
    /\ DoReport(log_exists, log_lines)
    /\ pc' = "exit"
    /\ UNCHANGED <<check_method, ping_count, interval, log_exists, log_lines, clock,
                   duration, start_time, last_status, disconnect_count, disconnect_start,
                   notices, verdicts, ticks, tick_starts, last_check, stop_cause, run_exc>>

NextReport == OnlyReport

SpecReport == InitReport /\ [][NextReport]_vars

(***************************************************************************)
(* What the collaborators of the probes can do.                            *)
(***************************************************************************)
Lats == {<<k, 1>> : k \in 1..MaxLat}

PingOutcomes(count) ==
    {[raises |-> TRUE, times |-> <<>>]}
        \cup {[raises |-> FALSE, times |-> t] : t \in UNION {[1..n -> 1..MaxSample] : n \in 0..count}}

SocketOutcomes ==
    {[does |-> "connected", ms |-> l] : l \in Lats}
        \cup {[does |-> d, ms |-> One] : d \in {"refused", "gaierror", "error"}}

HttpOutcomes ==
    {[primary |-> "200", secondary |-> "200", ms |-> l] : l \in Lats}
        \cup {[primary |-> "RequestException", secondary |-> x, ms |-> l] :
                 x \in {"200", "204"}, l \in Lats}
        \cup {[primary |-> "RequestException", secondary |-> x, ms |-> One] :
                 x \in {"HTTPError", "URLError"}}
        \cup {[primary |-> x, secondary |-> "200", ms |-> One] : x \in {"status", "exception"}}

UdpOutcomes ==
    {[does |-> "reply", ms |-> l] : l \in Lats}
        \cup {[does |-> d, ms |-> One] : d \in {"timeout", "error"}}

Envs(method, count) ==
    LET on(p) == p \in Range(Selected(method))
    IN  {[ping |-> a, socket |-> b, http |-> c, udp |-> d] :
            a \in IF on("ping") THEN PingOutcomes(count) ELSE {Quiet.ping},
            b \in IF on("socket") THEN SocketOutcomes ELSE {Quiet.socket},
            c \in IF on("http") THEN HttpOutcomes ELSE {Quiet.http},
            d \in IF on("udp") THEN UdpOutcomes ELSE {Quiet.udp}}

\* The log files a monitor may find when it starts: none, a file of zero
\* bytes, the header alone, the header and a row of an earlier run.
StartLogs ==
    {[exists |-> FALSE, lines |-> <<>>], [exists |-> TRUE, lines |-> <<>>],
     [exists |-> TRUE, lines |-> <<Header>>],
     [exists |-> TRUE, lines |-> <<Header, OldRow(0, TRUE)>>]}

(***************************************************************************)
(* SpecCheck: one call of check_connection, for every method and every     *)
(* combination of what the collaborators do.                               *)
(***************************************************************************)
InitCheck ==
    /\ Constructed
    /\ check_method \in Methods \cup {"other"}
    /\ ping_count \in 1..MaxPing
    /\ interval = SubSec
    /\ clock \in 0..1
    /\ \E f \in StartLogs : log_exists = f.exists /\ log_lines = f.lines

CheckOnce ==
    /\ pc = "idle"
    /\ ticks = 0
    /\ \E env \in Envs(check_method, ping_count), can_append \in BOOLEAN :
       \E c \in {CheckConnection(check_method, ping_count, log_exists, log_lines,
                                  clock, env, can_append)} :
              /\ \E held \in Collected(c.unclosed) :
                     last_check' = Checked(check_method, env, c, held)
              /\ log_exists' = c.exists
              /\ log_lines' = c.lines
    /\ ticks' = ticks + 1
    /\ UNCHANGED <<check_method, ping_count, interval, report_file, clock, pc, duration,
                   start_time, last_status, disconnect_count, disconnect_start, notices,
                   verdicts, tick_starts, report_calls, last_report, stop_cause, run_exc>>

NextCheck == CheckOnce

SpecCheck == InitCheck /\ [][NextCheck]_vars

(***************************************************************************)
(* SpecPing: one call of check_connection with check_method = "ping", for  *)
(* every packet count up to MaxCount and every list of parsed times.       *)
(***************************************************************************)
InitPing ==
    /\ Constructed
    /\ check_method = "ping"
    /\ ping_count \in 1..MaxCount
    /\ interval = SubSec
    /\ clock \in 0..1
    /\ \E f \in StartLogs : log_exists = f.exists /\ log_lines = f.lines

SpecPing == InitPing /\ [][NextCheck]_vars

(***************************************************************************)
(* run(), lines 231-277.  One action is one iteration of the loop; the     *)
(* iteration that leaves the loop, by break or by an exception, runs the   *)
(* finally clause with it.                                                 *)
(***************************************************************************)
\* What the collaborators do in the ticks of run(): everything answers,
\* nothing answers, only the DNS server answers, the HTTP client fails with
\* an exception that is no RequestException.
EnvUp ==
    [ping |-> [raises |-> FALSE, times |-> <<1>>], socket |-> [does |-> "connected", ms |-> One],
     http |-> [primary |-> "200", secondary |-> "200", ms |-> One],
     udp |-> [does |-> "reply", ms |-> One]]

EnvDown ==
    [ping |-> [raises |-> FALSE, times |-> <<>>], socket |-> [does |-> "refused", ms |-> One],
     http |-> [primary |-> "RequestException", secondary |-> "URLError", ms |-> One],
     udp |-> [does |-> "timeout", ms |-> One]]

RunEnvs ==
    {EnvUp, EnvDown, [EnvDown EXCEPT !.udp = EnvUp.udp],
     [EnvUp EXCEPT !.http = [primary |-> "exception", secondary |-> "200", ms |-> One]]}

Init ==
    /\ Constructed
    /\ check_method \in Methods \cup {"other"}
    /\ ping_count = MaxPing
    /\ interval \in {0, MaxInterval}
    /\ clock = 0
    /\ \E f \in StartLogs : log_exists = f.exists /\ log_lines = f.lines

\* Lines 237-245.  A duration of 0 is as good as None (line 269).
RunStart ==
    /\ pc = "idle"
    /\ pc' = "loop"
    /\ \E d \in {<<>>} \cup {<<k>> : k \in 0..MaxDuration} : duration' = d
    /\ start_time' = clock
    /\ last_status' = <<>>
    /\ disconnect_count' = 0
    /\ disconnect_start' = <<>>
    /\ UNCHANGED <<check_method, ping_count, interval, log_exists, log_lines, report_file,
                   clock, notices, verdicts, ticks, tick_starts, last_check, report_calls,
                   last_report, stop_cause, run_exc>>

\* run() leaves its loop without `finally`: the report is made after the loop,
\* which an exception of a tick never reaches.
LeaveNoFinally(cause, exc, exists, lines) ==
    /\ stop_cause' = cause
    /\ IF exc # "none"
       THEN /\ pc' = "raised"
            /\ run_exc' = exc
            /\ UNCHANGED <<report_calls, last_report, report_file>>
       ELSE /\ DoReport(exists, lines)
            /\ pc' = IF GenerateReport(exists, lines).outcome = "raised" THEN "raised" ELSE "returned"
            /\ run_exc' = GenerateReport(exists, lines).exc

\* run() leaves its loop (lines 270, 274-277): the finally clause calls
\* generate_report, then run() returns, or raises exc, or raises what
\* generate_report raised.
Leave(cause, exc, exists, lines) ==
    LET r == GenerateReport(exists, lines)
    IN  /\ stop_cause' = cause
        /\ DoReport(exists, lines)
        /\ pc' = IF exc # "none" \/ r.outcome = "raised" THEN "raised" ELSE "returned"
        /\ run_exc' = IF r.outcome = "raised" THEN r.exc ELSE exc

\* The test of line 269 with > for >=: a tick that ends exactly when the
\* duration has elapsed does not stop the loop.
ExpiredStrictly(d, start, after) == d # <<>> /\ d[1] # 0 /\ after - start > d[1]

\* Line 269: duration and time.time() - start_time >= duration.
Expired(d, start, after) == d # <<>> /\ d[1] # 0 /\ after - start >= d[1]

\* One iteration, lines 249-272.  took: how long check_connection takes, no
\* time or the longest the timeouts of the probes allow.
Tick ==
    /\ pc = "loop"
    /\ ticks < MaxTicks
    /\ \E env \in RunEnvs, can_append \in BOOLEAN, took \in {0, MaxTickTime} :
       \E c \in {CheckConnection(check_method, ping_count, log_exists, log_lines,
                                  clock, env, can_append)} :
          LET now == clock
              changed == c.exc = "none" /\ last_status # <<>> /\ last_status[1] # c.is_connected
              \* line 260: now - disconnect_start with disconnect_start = None
              type_error == changed /\ c.is_connected /\ disconnect_start = <<>>
              exc == IF c.exc # "none" THEN c.exc
                     ELSE IF type_error THEN "TypeError" ELSE "none"
              after == clock + took
              expired == Expired(duration, start_time, after)
          IN  /\ \E held \in Collected(c.unclosed) :
                     last_check' = Checked(check_method, env, c, held)
              /\ tick_starts' = Append(tick_starts, [at |-> now, took |-> took])
              /\ log_exists' = c.exists
              /\ log_lines' = c.lines
              /\ IF changed /\ ~type_error
                 THEN IF c.is_connected
                      THEN /\ notices' = Append(notices, [kind |-> "up", at |-> now,
                                                         n |-> now - disconnect_start[1]])
                           /\ UNCHANGED <<disconnect_count, disconnect_start>>
                      ELSE /\ disconnect_count' = disconnect_count + 1
                           /\ disconnect_start' = <<now>>
                           /\ notices' = Append(notices, [kind |-> "down", at |-> now,
                                                         n |-> disconnect_count + 1])
                 ELSE UNCHANGED <<notices, disconnect_count, disconnect_start>>
              /\ last_status' = IF exc = "none" THEN <<c.is_connected>> ELSE last_status
              /\ verdicts' = IF c.exc = "none"
                             THEN Append(verdicts, [now |-> now, is_connected |-> c.is_connected,
                                                    metrics |-> c.locals])
                             ELSE verdicts
              /\ IF exc # "none"
                 THEN clock' = after /\ Leave("error", exc, c.exists, c.lines)
                 ELSE IF expired
                 THEN clock' = after /\ Leave("duration", "none", c.exists, c.lines)
                 ELSE /\ clock' = after + interval
                      /\ UNCHANGED <<pc, stop_cause, run_exc, report_calls, last_report,
                                     report_file>>
    /\ ticks' = ticks + 1
    /\ UNCHANGED <<check_method, ping_count, interval, duration, start_time>>

\* KeyboardInterrupt while the loop sleeps (lines 272, 274-277).
Interrupt ==
    /\ pc = "loop"
    /\ Leave("interrupt", "none", log_exists, log_lines)
    /\ UNCHANGED <<check_method, ping_count, interval, log_exists, log_lines, clock,
                   duration, start_time, last_status, disconnect_count, disconnect_start,
                   notices, verdicts, ticks, tick_starts, last_check>>

Next == RunStart \/ Tick \/ Interrupt \/ OnlyReport

Spec == Init /\ [][Next]_vars

(***************************************************************************)
(* SpecTimed: run() with a positive interval, so that every iteration      *)
(* moves the clock on, and with the loop scheduled: a probe returns within *)
(* its timeout and time.sleep returns, so an iteration that can run does.  *)
(***************************************************************************)
InitTimed ==
    /\ Init
    /\ interval = MaxInterval

\* An iteration of the while loop of line 248 seen by its counter.  Tick is
\* the one action of Next that changes ticks, and it is enabled exactly when
\* pc = "loop" and ticks < MaxTicks, so fairness of this step is fairness of
\* Tick.
Iterate == pc = "loop" /\ ticks < MaxTicks /\ ticks' = ticks + 1

SpecTimed == InitTimed /\ [][Next]_vars /\ WF_ticks(Iterate)

(***************************************************************************)
(* Claims about generate_report, checked under SpecReport.                 *)
(***************************************************************************)
\* The series of the log when it is a header followed by well-formed rows.
Reported == report_calls = 1 /\ last_report.outcome = "written"
Series == ReadSeries(log_lines)
St == Series.statuses
Dt == Series.datetimes

\* The records that begin a maximal run of disconnected records.
RunStarts == {i \in 1..Len(St) : ~St[i] /\ (i = 1 \/ St[i - 1])}

\* The first connected record after record i, or the last record.
RunEnd(i) ==
    IF \E j \in (i + 1)..Len(St) : St[j]
    THEN CHOOSE j \in (i + 1)..Len(St) : St[j] /\ \A k \in (i + 1)..(j - 1) : ~St[k]
    ELSE Len(St)

\* The k-th run of disconnected records, in the order of the series.
KthRun(k) == CHOOSE i \in RunStarts : Cardinality({j \in RunStarts : j <= i}) = k

RunSeconds == [k \in 1..Cardinality(RunStarts) |-> Dt[RunEnd(KthRun(k))] - Dt[KthRun(k)]]

\* C1: when the first record of the series is connected, the episodes of the
\* report are exactly the maximal runs of disconnected records, in order, each
\* from the time of its first disconnected record to the time of the first
\* connected record after it, or to the time of the last record when the
\* series ends disconnected; that last episode counts in the downtime of the
\* uptime figure.  (Times are those of the datetime column, whole seconds.)
C1_EpisodesAreRuns ==
    (Reported /\ St[1]) =>
        /\ Len(last_report.disconnects) = Cardinality(RunStarts)
        /\ \A k \in 1..Cardinality(RunStarts) :
              last_report.disconnects[k] = <<Dt[KthRun(k)], Dt[RunEnd(KthRun(k))]>>
        /\ last_report.total_time > 0 =>
              last_report.uptime[1] =
                  100 * (last_report.total_time - SubSec * SumTo(RunSeconds, Len(RunSeconds)))

\* A series connected, down, connected, down: one closed episode and one that
\* is still open at the end, both reported.
C1_Witness ==
    /\ Reported
    /\ Len(St) = 4 /\ St[1] /\ ~St[2] /\ St[3] /\ ~St[4]
    /\ Len(last_report.disconnects) = 2
    /\ last_report.disconnects[1][2] > last_report.disconnects[1][1]

\* C6: a series of two or more records that begins disconnected has an episode
\* for that first run, from the first record's time to the time of the first
\* connected record, or of the last record if none is connected.
C6_LeadingRunReported ==
    (Reported /\ Len(St) >= 2 /\ ~St[1]) =>
        /\ last_report.disconnects # <<>>
        /\ last_report.disconnects[1] = <<Dt[1], Dt[RunEnd(1)]>>

\* C7: an all-connected series of any length N >= 1 has no episode and an
\* uptime of 100 percent.
C7_AllConnectedFullUptime ==
    (Reported /\ \A i \in 1..Len(St) : St[i]) =>
        /\ last_report.disconnects = <<>>
        /\ last_report.uptime[1] = 100 * last_report.uptime[2]

\* The rows of the file that convert without error.
GoodRows(lines) == SelectSeq(lines, RowOk)

\* C10: a log that is the header followed by rows, some with a field of the
\* wrong type, is read without an exception, and the report is the report of
\* the well-formed rows.
C10_MalformedRowsSkipped ==
    (report_calls = 1 /\ log_exists /\ log_lines # <<>> /\ log_lines[1] = Header) =>
        /\ last_report.outcome # "raised"
        /\ last_report = GenerateReport(TRUE, <<Header>> \o GoodRows(Tail(log_lines)))

\* C11: generate_report on an empty store, the log file missing, of zero
\* bytes or holding the header alone, ends with a 'no data' outcome: nothing
\* is raised and no report file is written.
C11_EmptyStoreNoData ==
    (report_calls = 1 /\ (~log_exists \/ log_lines \in {<<>>, <<Header>>})) =>
        /\ last_report.outcome = (IF log_exists THEN "nodata" ELSE "nofile")
        /\ last_report.exc = "none"
        /\ report_file = <<>>

\* The report was asked of a log that holds the header and nothing else.
C11_Witness ==
    /\ report_calls = 1 /\ log_exists /\ log_lines = <<Header>>
    /\ last_report.outcome = "nodata" /\ report_file = <<>>

(***************************************************************************)
(* Claims about check_connection, checked under SpecCheck.                 *)
(***************************************************************************)
\* The probes a check method selects.
ProbesOf(method) ==
    IF method = "all" THEN {"ping", "socket", "http", "udp"} ELSE {method}

\* The call got as far as the verdict: no probe raised.
Aggregated ==
    /\ last_check.called
    /\ last_check.method \in Methods
    /\ last_check.exc \in {"none", "OSError", "UnboundLocalError"}

\* C2: for every check method and every combination of probe outcomes, the
\* verdict is_connected is the OR of the success flags of exactly the probes
\* the method selects, and the connected field of the appended row is that
\* verdict.
C2_ConnectedIsOrOfSelected ==
    Aggregated =>
        /\ last_check.ran = ProbesOf(last_check.method)
        /\ last_check.is_connected = (\E p \in ProbesOf(last_check.method) : p \in last_check.flags)
        /\ last_check.appended =>
              last_check.row[Col("connected")] =
                  Num(<<IF last_check.flags # {} THEN 1 ELSE 0, 1>>)

\* Method "all", only the UDP probe succeeds, and the row is written connected.
C2_Witness ==
    /\ last_check.called /\ last_check.method = "all" /\ last_check.appended
    /\ last_check.flags = {"udp"}
    /\ last_check.row[Col("connected")] = Num(<<1, 1>>)

\* The collaborator of probe p ended in an error.
Errored(p, env) ==
    IF p = "ping" THEN env.ping.raises
    ELSE IF p = "socket" THEN env.socket.does \in {"gaierror", "error"}
    ELSE IF p = "http"
         THEN \/ env.http.primary = "exception"
              \/ env.http.primary = "RequestException"
                    /\ env.http.secondary \in {"HTTPError", "URLError"}
    ELSE env.udp.does \in {"timeout", "error"}

TimeColumn(p) ==
    IF p = "ping" THEN "ping_time" ELSE IF p = "socket" THEN "socket_time"
    ELSE IF p = "http" THEN "http_time" ELSE "udp_time"

\* C9: whatever error the collaborator of a probe ends in, the probe reports a
\* failure without a latency and no exception of a probe leaves
\* check_connection.
C9_ProbesNeverRaise ==
    (last_check.called /\ last_check.method \in Methods) =>
        /\ last_check.exc # "Exception"
        /\ \A p \in ProbesOf(last_check.method) :
              Errored(p, last_check.env) =>
                  /\ p \in last_check.ran
                  /\ p \notin last_check.flags
                  /\ last_check.appended => last_check.row[Col(TimeColumn(p))] = Empty

(***************************************************************************)
(* Claims about run(), checked under Spec.                                 *)
(***************************************************************************)
DataRows(lines) == SelectSeq(lines, LAMBDA l : l # Header)

\* C3: for each of the five check methods, a call of check_connection whose
\* probes and whose append meet no error returns normally and adds exactly one
\* data row to the log.
C3_OneRowPerTick ==
    [][(ticks' = ticks + 1 /\ check_method \in Methods
            /\ last_check'.exc \notin {"OSError", "Exception"})
        => /\ last_check'.exc = "none"
           /\ Len(DataRows(log_lines')) = Len(DataRows(log_lines)) + 1]_vars

\* C4: when run() has stopped, by duration, by an interrupt or by an error of
\* a tick, generate_report has been called exactly once, and it is not called
\* while the loop runs.
C4_ReportOnceOnExit ==
    /\ pc \in {"returned", "raised"} => (report_calls = 1 /\ stop_cause # "none")
    /\ pc \in {"idle", "loop"} => report_calls = 0

\* run() ended by an error of a tick, and the report was generated.
C4_Witness ==
    /\ pc = "raised" /\ stop_cause = "error" /\ run_exc = "UnboundLocalError"
    /\ report_calls = 1 /\ last_report.outcome = "nodata"

\* The outages of the live loop, from its notifications, in whole seconds.
Downs == SelectSeq(notices, LAMBDA x : x.kind = "down")
Ups == SelectSeq(notices, LAMBDA x : x.kind = "up")
\* The episodes of the batch pass over the verdicts the live loop was given.
Batch ==
    Disconnects([i \in 1..Len(verdicts) |-> verdicts[i].is_connected],
                [i \in 1..Len(verdicts) |-> verdicts[i].now \div SubSec])

\* C5: for every sequence of verdicts the live loop processes it without an
\* error, and its outages (opened at the 'disconnected' notice, closed at the
\* 'recovered' notice, counted by disconnect_count) are the episodes of the
\* batch pass over the same sequence: same count, same starts, same ends.
C5_LiveEqualsBatch ==
    /\ run_exc # "TypeError"
    /\ disconnect_count = Len(Batch)
    /\ Len(Downs) = Len(Batch)
    /\ \A k \in 1..Len(Downs) : Downs[k].at \div SubSec = Batch[k][1]
    /\ Len(Ups) <= Len(Batch)
    /\ \A k \in 1..Len(Ups) : Ups[k].at \div SubSec = Batch[k][2]

\* C8: a tick whose append to the log fails does not end the loop.
C8_AppendFailureKeepsLooping ==
    [][(ticks' = ticks + 1 /\ last_check'.exc = "OSError") => pc' = "loop"]_vars

\* C12: the first append to an empty store, the file absent or of zero bytes,
\* leaves the header and one data row, and every later append adds one data
\* row and nothing else; so after n appends the log is the header followed by
\* n data rows.
C12_HeaderThenRows ==
    [][(ticks' = ticks + 1 /\ last_check'.appended)
        => log_lines' = IF log_lines = <<>> THEN <<Header, last_check'.row>>
                        ELSE Append(log_lines, last_check'.row)]_vars

\* C13: a check method outside the five known ones is refused when the
\* monitor is constructed, so no call of check_connection is ever made with
\* one.
C13_UnknownMethodRejected == ticks > 0 => check_method \in Methods

\* C14: when the log holds exactly the records this run appended (the store
\* was empty when it started), reading it back as generate_report does gives
\* as many records, in the order written, each with the timestamp, the
\* connected flag and the metric values, present or absent, that were written.
C14_RoundTrip ==
    (verdicts # <<>> /\ Len(DataRows(log_lines)) = Len(verdicts)) =>
        LET s == ReadSeries(log_lines)
        IN  /\ s.exc = "none"
            /\ Len(s.timestamps) = Len(verdicts)
            /\ \A i \in 1..Len(s.timestamps) :
                  /\ s.timestamps[i] = verdicts[i].now
                  /\ s.statuses[i] = verdicts[i].is_connected
                  /\ \A m \in MetricColumns : s.metrics[i][m] = verdicts[i].metrics[m]

(***************************************************************************)
(* Further claims about check_connection, checked under SpecCheck.         *)
(***************************************************************************)
\* The status of the response the HTTP probe obtained, from requests.get or,
\* after a RequestException, from urlopen; "none" if it obtained no response.
ObtainedStatus(o) ==
    IF o.primary \in {"200", "status"} THEN o.primary
    ELSE IF o.primary = "RequestException" /\ o.secondary \in {"200", "204"} THEN o.secondary
    ELSE "none"

\* C15: the HTTP probe succeeds exactly when the response it obtained, from
\* the primary client or from the secondary one tried after a transport error
\* of the primary, has status 200; it fails when neither client obtained one.
C15_HttpSuccessIffStatus200 ==
    (last_check.called /\ "http" \in last_check.ran /\ last_check.env.http.primary # "exception") =>
        ("http" \in last_check.flags <=> ObtainedStatus(last_check.env.http) = "200")

\* C17: for every check method whose probes all returned, ping_time, jitter
\* and packet_loss of the record are absent unless the ping probe ran, and the
\* latency of the socket, http and udp probe is the value of socket_time,
\* http_time and udp_time.
C17_MetricsFollowMethod ==
    Aggregated =>
        /\ "ping" \notin last_check.ran =>
              \A m \in {"ping_time", "jitter", "packet_loss"} : last_check.locals[m] = <<>>
        /\ \A p \in last_check.ran \ {"ping"} :
              last_check.locals[TimeColumn(p)] = RunProbe(p, ping_count, last_check.env).time

(***************************************************************************)
(* Further claims about generate_report, checked under SpecReport.         *)
(***************************************************************************)
\* C16: for every series the report is written for (timestamps never
\* decrease), the uptime percentage is (1 - D / T) * 100, D the sum of the
\* episode durations in whole seconds and T the last timestamp minus the
\* first, and it lies between 0 and 100.
C16_UptimeInRange ==
    Reported =>
        /\ last_report.total_time > 0 =>
              /\ last_report.uptime[2] = last_report.total_time
              /\ last_report.uptime[1] =
                    100 * (last_report.total_time
                              - SubSec * SumDurations(last_report.disconnects))
        /\ last_report.uptime[2] > 0
        /\ 0 <= last_report.uptime[1]
        /\ last_report.uptime[1] <= 100 * last_report.uptime[2]

(***************************************************************************)
(* Claims about the ping probe, checked under SpecPing.                    *)
(***************************************************************************)
\* The ping subprocess ran and its output was parsed.
PingParsed == last_check.called /\ "ping" \in last_check.ran /\ ~last_check.env.ping.raises
PingTimes == last_check.env.ping.times

\* C18: with ping_count >= 1 and n <= ping_count parsed times the ping probe
\* succeeds exactly when n >= 1, and its packet loss is
\* (ping_count - n) / ping_count * 100, a value between 0 and 100: 66.67 to
\* within 0.01 for ping_count = 3 and n = 1, and 100 with a failure for n = 0.
C18_PacketLoss ==
    PingParsed =>
        LET n == Len(PingTimes)
            loss == last_check.locals.packet_loss
        IN  /\ ("ping" \in last_check.flags) <=> (n >= 1)
            /\ Len(loss) = 1 /\ loss[1][2] > 0
            /\ loss[1][1] * ping_count = (ping_count - n) * 100 * loss[1][2]
            /\ 0 <= loss[1][1] /\ loss[1][1] <= 100 * loss[1][2]
            /\ (ping_count = 3 /\ n = 1) =>
                  /\ 6666 * loss[1][2] <= 100 * loss[1][1]
                  /\ 100 * loss[1][1] <= 6668 * loss[1][2]
            /\ n = 0 => loss[1][1] = 100 * loss[1][2] /\ "ping" \notin last_check.flags

\* Three packets sent, one answered: the probe succeeds with a loss of 200/3.
C18_Witness ==
    /\ PingParsed /\ ping_count = 3 /\ Len(PingTimes) = 1
    /\ "ping" \in last_check.flags
    /\ last_check.locals.packet_loss = << <<200, 3>> >>

SumOfSquares(times) == SumSeq([i \in 1..Len(times) |-> times[i] * times[i]])

\* C19: for n >= 2 parsed times the jitter is the square root of
\* sum((x - avg)^2) / (n - 1), which is (n sum(x^2) - sum(x)^2) / (n (n - 1));
\* for n = 1 it is 0; for n = 0 the jitter and the average are absent and the
\* ping has failed.
C19_JitterIsSampleDeviation ==
    PingParsed =>
        LET n == Len(PingTimes)
            jitter == last_check.locals.jitter
            avg == last_check.locals.ping_time
        IN  /\ n >= 2 =>
                  /\ Len(jitter) = 1 /\ Len(jitter[1]) = 3 /\ jitter[1][3] = 2
                  /\ jitter[1][2] > 0
                  /\ jitter[1][1] * n * (n - 1) =
                        jitter[1][2] * (n * SumOfSquares(PingTimes)
                                           - SumSeq(PingTimes) * SumSeq(PingTimes))
                  /\ Len(avg) = 1 /\ avg[1][1] * n = SumSeq(PingTimes) * avg[1][2]
            /\ n = 1 => jitter = << <<0, 1>> >>
            /\ n = 0 => jitter = <<>> /\ avg = <<>> /\ "ping" \notin last_check.flags

\* Three times 1, 2, 2 ms: the jitter is the square root of 1/3.
C19_Witness ==
    /\ PingParsed /\ PingTimes = <<1, 2, 2>>
    /\ last_check.locals.jitter # <<>>
    /\ 3 * last_check.locals.jitter[1][1] = last_check.locals.jitter[1][2]

(***************************************************************************)
(* A further claim about run(), checked under Spec.                        *)
(***************************************************************************)
\* C20: two consecutive ticks of run() start exactly `interval` apart whenever
\* the first of them takes no longer than `interval`, and a tick never starts
\* before the one before it has ended.
C20_IntervalBetweenTickStarts ==
    \A i \in 1..(Len(tick_starts) - 1) :
        /\ tick_starts[i].took <= interval =>
              tick_starts[i + 1].at - tick_starts[i].at = interval
        /\ tick_starts[i + 1].at >= tick_starts[i].at + tick_starts[i].took

(***************************************************************************)
(* Termination of run(), checked under SpecTimed.                          *)
(***************************************************************************)
Terminated == pc \in {"returned", "raised"}
Timed == duration # <<>> /\ duration[1] > 0

\* C21: when run() has a duration d > 0, the tick at whose end the elapsed
\* time has reached d is the last one: the loop is left at the end of that
\* tick with a call of generate_report, no tick starts after the loop is left,
\* the duration stops the loop at no earlier tick, and run() eventually
\* terminates with the report generated.
C21_StopsAtDeadline ==
    /\ [][ /\ (ticks' = ticks + 1 /\ Timed) =>
                 LET t == tick_starts'[Len(tick_starts')]
                     elapsed == t.at + t.took - start_time
                 IN  /\ elapsed >= duration[1] =>
                           (Terminated' /\ report_calls' = report_calls + 1)
                     /\ stop_cause' = "duration" => elapsed >= duration[1]
           /\ pc # "loop" => ticks' = ticks ]_vars
    /\ (pc = "loop" /\ Timed) ~> (Terminated /\ report_calls = 1)

\* A run of two ticks or more that the duration stopped, and that returned
\* after its report.
C21_Witness ==
    /\ Timed /\ stop_cause = "duration" /\ pc = "returned"
    /\ ticks >= 2 /\ report_calls = 1
    /\ clock - start_time >= duration[1]

(***************************************************************************)
(* The else branch of check_connection, checked under SpecCheck.           *)
(***************************************************************************)
\* C22: a call of check_connection with a check method outside the five
\* known ones returns as a call with "all" does: it ends without the
\* interpreter giving up on it, the four probes have run, and unless the log
\* cannot be written one row has been appended.
C22_UnknownMethodUsesAll ==
    (last_check.called /\ last_check.method \notin Methods) =>
        /\ last_check.exc \in {"none", "OSError"}
        /\ last_check.ran = {"ping", "socket", "http", "udp"}
        /\ last_check.exc = "none" => last_check.appended

(***************************************************************************)
(* The transition notices of run(), checked under Spec.                    *)
(***************************************************************************)
\* C23: whenever a tick of run() finds the connection up after a tick that
\* found it down, the start of the outage has been recorded and the tick
\* raises nothing, also when the outage began with the first tick.
C23_RecoveryHasOutageStart ==
    [][(ticks' = ticks + 1 /\ last_status = <<FALSE>>
            /\ last_check'.exc = "none" /\ last_check'.is_connected)
        => /\ disconnect_start # <<>>
           /\ run_exc' = "none"
           /\ pc' # "raised"]_vars

(***************************************************************************)
(* The sockets of the probes, checked under SpecCheck.                     *)
(***************************************************************************)
\* C24: when check_connection is over, no socket that the socket probe or
\* the UDP probe opened is still open, whether the probe succeeded, timed
\* out, was refused or met an error of send or receive.
C24_NoSocketLeftOpen == last_check.called => last_check.open = {}

====
